---- MODULE Spec2Model ----
(***************************************************************************)
(* A model of the file-submission server: the acceptor (server.py), the    *)
(* per-connection request loop and its handlers (protocol_handler.py), the *)
(* sqlite catalog (db_handler.py, const.py) and the blob store             *)
(* (file_handler.py).                                                      *)
(*                                                                         *)
(* Every perform_query call is one sqlite statement in its own connection  *)
(* and transaction, so it is one atomic step; a handler that makes several *)
(* calls is a sequence of steps, between which the other connection        *)
(* threads may run.  Computation that touches only the thread's own state  *)
(* is folded into the step of the shared operation before it.              *)
(*                                                                         *)
(* The model starts from a constructed Server over an open database whose  *)
(* tables exist, and takes request frames as the fields handle_request     *)
(* unpacks from them.  The bytes of frames are the matter of WireSpec,     *)
(* which runs the frame codec alone, and of StreamSpec, which runs the     *)
(* reads of handle_request on a stream; FairSpec is the server under the   *)
(* scheduling of its threads; StartSpec is the startup over the database   *)
(* file.                                                                   *)
(***************************************************************************)
EXTENDS Integers, Sequences, FiniteSets, TLC

(***************************************************************************)
(* Bounds of the model.                                                    *)
(***************************************************************************)
\* Request frames received by the server, all connections together.
MaxReq == 3

\* Connections the acceptor can hand out.
Sessions == {1, 2}

(***************************************************************************)
(* const.py                                                                *)
(***************************************************************************)
SERVER_VERSION == "3"

REGISTRATION == 1025
SEND_PUBLIC_KEY == 1026
RECONNECT == 1027
SEND_FILE == 1028
CRC_CORRECT == 1029
CRC_INCORRECT_RESEND == 1030
CRC_INCORRECT_DONE == 1031

RequestCodes ==
    {REGISTRATION, SEND_PUBLIC_KEY, RECONNECT, SEND_FILE, CRC_CORRECT,
     CRC_INCORRECT_RESEND, CRC_INCORRECT_DONE}

REGISTRATION_SUCCESS == 2100
REGISTRATION_FAILED == 2101
RECEIVED_PUBLIC_KEY_SEND_AES == 2102
FILE_RECEIVED_CRC_OK == 2103
CONFIRM_MSG == 2104
APPROVE_RECONNECT_SEND_AES == 2105
RECONNECT_REJECTED == 2106
GENERAL_ERROR == 2107

FILES_STORAGE_FOLDER == "./storage"

(***************************************************************************)
(* Values on the wire.  Bytes are numbers, byte strings are sequences.     *)
(***************************************************************************)
\* The 16-byte client id, scaled to two bytes.  uuid4().bytes can hold 0x00
\* in any byte but two, so one id with a NUL byte is kept.
GenIds == {<<1, 1>>, <<1, 2>>, <<0, 1>>}

\* The header's client_id field is one of the ids above or, from a client
\* that has no id yet, all zero.
ZeroId == <<0, 0>>

\* Name payloads: "a", "a" NUL-padded, " b".
RawNames == {<<97>>, <<97, 0>>, <<32, 98>>}

\* Code fields that are no member of RequestCodes.
UnknownCodes == {0}

\* b'' in the PublicKey and AESKey columns.
EmptyBytes == ""

\* Public key bytes: two RSA keys, and bytes that are no key.  A client
\* that sends SEND_PUBLIC_KEY sends the second key or the bytes that are none;
\* the first key is the one an earlier run stored.
RsaKeys == {"pk1", "pk2"}
PubKeyInputs == {"pk2", "bad"}

\* get_random_bytes(CLIENTS_AES_KEY_SIZE)
AesKeys == {"k1", "k2"}

FileNames == {"f1", "f2"}

\* File contents: empty, "h", and a byte that is no UTF-8.
Plaintexts == {<<>>, <<104>>, <<255>>}

\* IV || AES-CBC(pad(p)) under key k.
Ciphertexts == [k : AesKeys, p : Plaintexts]

\* The content of a SEND_FILE whose content_size is 0: no bytes, so no IV
\* and no block.
EmptyContent == [k |-> EmptyBytes, p |-> <<>>]

(***************************************************************************)
(* Decoding helpers of protocol_handler.py                                 *)
(***************************************************************************)
\* client_id_bytes.replace(b'\x00', b'')
StripNul(bytes) == SelectSeq(bytes, LAMBDA b : b # 0)

RECURSIVE LStrip(_, _)
LStrip(s, chars) ==
    IF s # <<>> /\ Head(s) \in chars THEN LStrip(Tail(s), chars) ELSE s

RECURSIVE RStrip(_, _)
RStrip(s, chars) ==
    IF s # <<>> /\ s[Len(s)] \in chars
    THEN RStrip(SubSeq(s, 1, Len(s) - 1), chars)
    ELSE s

\* str.strip(chars)
Strip(s, chars) == RStrip(LStrip(s, chars), chars)

\* What str.strip() removes, among the 7-bit characters.
Whitespace == {9, 10, 11, 12, 13, 28, 29, 30, 31, 32}

\* request.payload.decode('utf-8').strip('\x00').strip()
TrimName(raw) == Strip(Strip(raw, {0}), Whitespace)

Names == {TrimName(raw) : raw \in RawNames}

\* client_socket.recv(payload_size) of a payload of which avail bytes
\* arrive before the peer stops sending: one recv call, which returns what
\* is there.
Recv(payload, avail) == SubSeq(payload, 1, avail)

(***************************************************************************)
(* Cryptography                                                            *)
(***************************************************************************)
\* RSA.import_key raises ValueError on bytes that are no RSA key.
ImportKeyOk(pem) == pem \in RsaKeys

\* PKCS1_OAEP.new(public_key).encrypt(aes_key)
OaepEncrypt(pub, key) == [pub |-> pub, key |-> key]

\* bytes.decode('utf-8') of the decrypted content.
Utf8Ok(p) == \A i \in DOMAIN p : p[i] < 128

\* decrypt_aes_cbc: the outcomes of decrypting ct under key.  AES.new raises
\* on a key that is not 16 bytes and on an IV that is not 16 bytes; under
\* another key than the one that encrypted, unpad raises or, when the last
\* block happens to end in valid padding, returns other bytes; decode raises
\* on bytes that are no UTF-8.
DecryptError == <<-1>>
DecryptAesCbc(ct, key) ==
    IF key \notin AesKeys \/ ct = EmptyContent THEN {DecryptError}
    ELSE IF ct.k = key
         THEN IF Utf8Ok(ct.p) THEN {ct.p} ELSE {DecryptError}
         ELSE {DecryptError} \cup {p \in Plaintexts : Utf8Ok(p) /\ p # ct.p}

\* content_size of the request that carries ct: IV, then whole blocks.
ContentSize(ct) ==
    IF ct = EmptyContent THEN 0 ELSE 16 + 16 * ((Len(ct.p) \div 16) + 1)

(***************************************************************************)
(* CRC-32 (polynomial 0xEDB88320, initial value and final XOR 0xFFFFFFFF)  *)
(* on a 32-bit register held as bits 0..31.                                *)
(***************************************************************************)
Bits32 == 0 .. 31

Pow2(n) == 2 ^ n

PolyHi == 60856
PolyLo == 33568
PolyBits == [i \in Bits32 |->
               IF i < 16 THEN (PolyLo \div Pow2(i)) % 2
               ELSE (PolyHi \div Pow2(i - 16)) % 2]

XorBits(a, b) == [i \in Bits32 |-> (a[i] + b[i]) % 2]

ShiftRight(a) == [i \in Bits32 |-> IF i = 31 THEN 0 ELSE a[i + 1]]

ByteBits(b) == [i \in Bits32 |-> IF i < 8 THEN (b \div Pow2(i)) % 2 ELSE 0]

CrcRound(c) ==
    IF c[0] = 1 THEN XorBits(ShiftRight(c), PolyBits) ELSE ShiftRight(c)

RECURSIVE CrcRounds(_, _)
CrcRounds(c, n) == IF n = 0 THEN c ELSE CrcRounds(CrcRound(c), n - 1)

RECURSIVE CrcUpdate(_, _)
CrcUpdate(c, bytes) ==
    IF bytes = <<>> THEN c
    ELSE CrcUpdate(CrcRounds(XorBits(c, ByteBits(Head(bytes))), 8),
                   Tail(bytes))

AllOnes == [i \in Bits32 |-> 1]

\* The byte of register c that holds bits 8n .. 8n+7.
RegByte(c, n) ==
    c[8*n] + 2*c[8*n+1] + 4*c[8*n+2] + 8*c[8*n+3] + 16*c[8*n+4]
    + 32*c[8*n+5] + 64*c[8*n+6] + 128*c[8*n+7]

\* The checksum of a blob, as the 4 bytes of the response, big-endian.
Crc32(bytes) ==
    LET c == XorBits(CrcUpdate(AllOnes, bytes), AllOnes)
    IN  <<RegByte(c, 3), RegByte(c, 2), RegByte(c, 1), RegByte(c, 0)>>

(***************************************************************************)
(* The catalog: db_handler.py over the tables of const.DB_CONFIG.          *)
(* A table is the set of its rows.                                         *)
(***************************************************************************)
\* models.Client, a row of clients
Client(id, name, public_key, last_seen, aes_key) ==
    [id |-> id, name |-> name, public_key |-> public_key,
     last_seen |-> last_seen, aes_key |-> aes_key]

\* models.File, a row of files
File(id, file_name, path_name, verified) ==
    [id |-> id, file_name |-> file_name, path_name |-> path_name,
     verified |-> verified]

\* get_client without its WHERE clause.
GetClientNoWhere(cl, name) == cl

\* get_client: the rows of SELECT * FROM clients WHERE name=:name.  The
\* caller takes results[0]; the statement has no ORDER BY.
GetClient(cl, name) == {c \in cl : c.name = name}

\* A clients table created without PRIMARY KEY on ID.
ClientsInsertNoPrimaryKey(cl, row) == TRUE

\* The constraints of the clients table that INSERT checks: ID is the
\* PRIMARY KEY; name is NOT NULL and carries no UNIQUE.
ClientsInsertOk(cl, row) == \A c \in cl : c.id # row.id

\* An add_client whose INSERT is lost.
AddClientLost(cl, row) == cl

\* add_client, when the INSERT is accepted.
AddClient(cl, row) == cl \cup {row}

\* get_client_aes without its WHERE clause.
GetAesKeyRowsNoWhere(cl, id) == {c.aes_key : c \in cl}

\* get_client_aes: the rows of SELECT AESKey FROM clients WHERE ID=:id.
GetAesKeyRows(cl, id) == {c.aes_key : c \in {x \in cl : x.id = id}}

\* update_public_aes as DELETE and INSERT, seen between the two.
UpdateByDeleteAndInsert(cl, id, aes_key, public_key) ==
    {c \in cl : c.id # id}

\* update_public_aes as two statements, seen between the first and the
\* second: PublicKey is set, AESKey is not yet.
UpdatePublicKeyOnly(cl, id, aes_key, public_key) ==
    {IF c.id = id THEN [c EXCEPT !.public_key = public_key] ELSE c : c \in cl}

\* update_public_key_and_aes_key: UPDATE clients SET PublicKey, AESKey
\* WHERE ID=:id.  A statement that matches no row changes nothing and
\* raises nothing.
UpdatePublicKeyAndAesKey(cl, id, aes_key, public_key) ==
    {IF c.id = id
     THEN [c EXCEPT !.public_key = public_key, !.aes_key = aes_key]
     ELSE c : c \in cl}

\* A files table created without UNIQUE(ID, Filename).
FilesInsertNoUnique(fl, row) == TRUE

\* UNIQUE(ID, Filename) of the files table.
FilesInsertOk(fl, row) ==
    \A f \in fl : ~(f.id = row.id /\ f.file_name = row.file_name)

\* add_file as INSERT OR REPLACE: the row of the pair is the new one.
AddFileReplace(fl, row) ==
    {f \in fl : ~(f.id = row.id /\ f.file_name = row.file_name)} \cup {row}

\* add_file: the INSERT, with sqlite3.IntegrityError caught and logged.
AddFile(fl, row) == IF FilesInsertOk(fl, row) THEN fl \cup {row} ELSE fl

\* modify_file_verified without FileName in its WHERE clause.
UpdateFileVerifiedAnyName(fl, id, file_name, verified) ==
    {IF f.id = id THEN [f EXCEPT !.verified = verified] ELSE f : f \in fl}

\* update_file_verified: UPDATE files SET Verified WHERE ID AND FileName.
UpdateFileVerified(fl, id, file_name, verified) ==
    {IF f.id = id /\ f.file_name = file_name
     THEN [f EXCEPT !.verified = verified]
     ELSE f : f \in fl}

(***************************************************************************)
(* The blob store: file_handler.py and the paths the handler builds.       *)
(***************************************************************************)
\* os.path.join(FILES_STORAGE_FOLDER, file_name)
PathName(file_name) == <<FILES_STORAGE_FOLDER, file_name>>

Paths == {PathName(f) : f \in FileNames}

\* A path at which there is no file.
NoBlob == <<-1>>

\* FileHandler.write_value: the file after the call.  ok is whether open
\* and write went through; an OSError is caught and the file is left as it
\* was.
WriteValue(store, path, value, ok) ==
    IF ok THEN [store EXCEPT ![path] = value] ELSE store

(***************************************************************************)
(* Responses: models.Response.  The payload is the tuple of the fields     *)
(* the handler concatenates.                                               *)
(***************************************************************************)
Response(code, payload) ==
    [version |-> SERVER_VERSION, code |-> code, payload |-> payload]

\* Nothing was sent for the request.
NoResponse == [version |-> "", code |-> 0, payload |-> <<>>]

GeneralErrorText == "General server exception or invalid request code."
RestartText == "Restart as new client"

(***************************************************************************)
(* Frames as bytes: Response.to_bytes of models.py and the header that    *)
(* handle_request unpacks.                                                 *)
(***************************************************************************)
CLIENT_ID_SIZE == 16

\* Payloads of frames, as bytes: of length 0, 1, 2 and MaxPayload.
MaxPayload == 300
Payloads ==
    {[i \in 1 .. n |-> b] : n \in {0, 1, 2, MaxPayload}, b \in {0, 65}}

\* str.encode('utf-8') of a version: one character, a digit.
Utf8Encode(version) ==
    <<CASE version = "3" -> 51
        [] version = "2" -> 50
        [] OTHER -> 63>>

\* int.to_bytes(length, byteorder='little')
IntToBytesLittle(n, length) ==
    [i \in 1 .. length |-> (n \div (256 ^ (i - 1))) % 256]

\* int.to_bytes(length, byteorder='big')
IntToBytes(n, length) ==
    [i \in 1 .. length |-> (n \div (256 ^ (length - i))) % 256]

\* Response.to_bytes, of a response whose payload is bytes.
ToBytes(resp) ==
    Utf8Encode(resp.version) \o IntToBytes(resp.code, 2)
        \o IntToBytes(Len(resp.payload), 4) \o resp.payload

\* The byte orders a build of the interpreter can have as its native one.
ByteOrders == {"little", "big"}

\* The unsigned integer that bytes hold in the given byte order.
RECURSIVE FromBytes(_, _)
FromBytes(bytes, order) ==
    IF bytes = <<>> THEN 0
    ELSE IF order = "little"
         THEN Head(bytes) + 256 * FromBytes(Tail(bytes), order)
         ELSE bytes[Len(bytes)]
              + 256 * FromBytes(SubSeq(bytes, 1, Len(bytes) - 1), order)

\* format_string = "16sBHI": 16 chars, unsigned char, unsigned short,
\* unsigned int.  The string has no byte order character, so struct uses
\* native size, native byte order and native alignment, which is the size
\* of the item.
FormatString ==
    <<[count |-> CLIENT_ID_SIZE, size |-> 1], [count |-> 1, size |-> 1],
      [count |-> 1, size |-> 2], [count |-> 1, size |-> 4]>>

\* The next multiple of align from off on.
Align(off, align) == ((off + align - 1) \div align) * align

\* The offsets at which struct places the items of fmt from the i-th on,
\* off being the end of the item before.
RECURSIVE Offsets(_, _, _)
Offsets(fmt, i, off) ==
    IF i > Len(fmt) THEN <<>>
    ELSE LET start == Align(off, fmt[i].size)
         IN  <<start>> \o Offsets(fmt, i + 1,
                                  start + fmt[i].count * fmt[i].size)

\* struct.calcsize
Calcsize(fmt) ==
    LET last == Len(fmt)
    IN  Offsets(fmt, 1, 0)[last] + fmt[last].count * fmt[last].size

\* The bytes of item i of fmt in data.
Item(fmt, data, i) ==
    LET start == Offsets(fmt, 1, 0)[i]
    IN  SubSeq(data, start + 1, start + fmt[i].count * fmt[i].size)

\* What handle_request makes of the bytes of its first recv: struct.unpack
\* raises struct.error on a buffer that is not calcsize bytes long.
Header(ok, client_id, version, code, payload_size) ==
    [ok |-> ok, client_id |-> client_id, version |-> version,
     code |-> code, payload_size |-> payload_size]

StructError == Header(FALSE, <<>>, 0, 0, 0)

Unpack(fmt, data, order) ==
    IF Len(data) # Calcsize(fmt) THEN StructError
    ELSE Header(TRUE, Item(fmt, data, 1), Item(fmt, data, 2)[1],
                FromBytes(Item(fmt, data, 3), order),
                FromBytes(Item(fmt, data, 4), order))

\* A request as a client puts it on the wire: client_id, version, code and
\* payload_size in 16 + 1 + 2 + 4 bytes, integers big-endian, then the
\* payload.
RequestFrame(client_id, version, code, payload) ==
    client_id \o <<version>> \o IntToBytes(code, 2)
        \o IntToBytes(Len(payload), 4) \o payload

\* The length bytes of n in the given byte order: what FromBytes reads
\* back as n.
PackInt(n, length, order) ==
    [i \in 1 .. length |->
        IF order = "big" THEN (n \div (256 ^ (length - i))) % 256
        ELSE (n \div (256 ^ (i - 1))) % 256]

\* A request whose header is laid out as format_string reads it on this
\* build: the items at their offsets in calcsize bytes, pad bytes 0,
\* integers in the native byte order; then the payload.
NativeFrame(client_id, version, code, payload, order) ==
    LET fmt == FormatString
        off == Offsets(fmt, 1, 0)
        items == <<client_id, <<version>>, PackInt(code, fmt[3].size, order),
                   PackInt(Len(payload), fmt[4].size, order)>>
        header == [b \in 1 .. Calcsize(fmt) |->
                     IF \E i \in DOMAIN fmt :
                           b > off[i] /\ b <= off[i] + Len(items[i])
                     THEN LET i == CHOOSE j \in DOMAIN fmt :
                                      b > off[j] /\ b <= off[j] + Len(items[j])
                          IN  items[i][b - off[i]]
                     ELSE 0]
    IN  header \o payload

\* Header client ids at their size on the wire.
WireIds == {[i \in 1 .. CLIENT_ID_SIZE |-> b] : b \in {1, 65}}

(***************************************************************************)
(* Startup: Server.initialize_server and DatabaseHandler.cache_tables_data *)
(* over the database file.                                                 *)
(***************************************************************************)
\* The keys of DB_CONFIG, in the order of the dict.
TableNames == <<"clients", "files">>

Tables == {TableNames[i] : i \in DOMAIN TableNames}

\* The parameters of DatabaseHandler.__init__, none of which has a default.
InitParameters == {"db_file", "config", "logger", "client_tbl", "files_tbl"}

\* The keyword arguments of the DatabaseHandler(...) call in
\* initialize_server.
InitializeServerPasses == {"db_file", "config", "logger"}

\* The methods class DatabaseHandler defines.
Methods ==
    {"_connect", "table_exists", "perform_query",
     "perform_query_to_data_model", "cache_tables_data", "get_client",
     "add_client", "add_file", "update_file_verified",
     "get_aes_key_for_client", "update_public_key_and_aes_key"}

\* The database file: the tables it has, their rows, and the statements it
\* still serves before sqlite3 raises on every further one (0: it cannot be
\* opened at all).
Store(has, rows, left) == [has |-> has, rows |-> rows, left |-> left]

\* What an earlier run can have left in a table.
StoredRows ==
    [clients : {{}, {Client(<<1, 1>>, <<97>>, "pk1", 0, "k1")}},
     files : {{}, {File(<<1, 1>>, "f1", <<FILES_STORAGE_FOLDER, "f1">>,
                        TRUE)}}]

\* The database files a server can be started over.  A table that is not
\* there has no rows.
Stores ==
    {st \in {Store(has, rows, left) :
                has \in SUBSET Tables, rows \in StoredRows,
                left \in 0 .. 2 * Len(TableNames)} :
        \A tb \in Tables \ st.has : st.rows[tb] = {}}

\* results of cache_tables_data: the keys it has, and the list under each.
Results(keys, rows) == [keys |-> keys, rows |-> rows]

NoResults == Results({}, [tb \in Tables |-> {}])

\* {table_name: [] for table_name in self.config.keys()}
EmptyResults == Results(Tables, [tb \in Tables |-> {}])

(***************************************************************************)
(* State                                                                   *)
(***************************************************************************)
VARIABLES
    clients,   \* the clients table
    files,     \* the files table
    blobs,     \* the files under FILES_STORAGE_FOLDER, by path
    sess,      \* per connection: the thread of Server._handle_client
    now,       \* request frames received so far; the clock of datetime.now()
    ev,        \* what the last step did on its socket
    issued,    \* history: the REGISTRATION_SUCCESS responses sent
    wire,      \* the frame codec at work: its input and what it made of it
    stream,    \* the reads of handle_request on a stream of frames
    boot       \* the startup of the server over its database file

vars == <<clients, files, blobs, sess, now, ev, issued, wire, stream, boot>>

NoCt == [k |-> EmptyBytes, p |-> <<>>]

\* A connection thread.  pc is where it stands; code and cid are the
\* request it is serving; the other fields are the locals a handler carries
\* from one catalog or blob operation to the next.  wid is client_id_bytes,
\* the header field as it was unpacked.
Thread(pc, code, cid) ==
    [pc |-> pc, code |-> code, cid |-> cid, wid |-> <<>>,
     name |-> <<>>, pub |-> EmptyBytes, aes |-> EmptyBytes,
     fname |-> "", plain |-> <<>>, ct |-> NoCt]

\* A step on the socket of thread s: the request (code, cid) it finished,
\* the response frame it sent (NoResponse: none), the exception that left
\* handle_request (NoErr: none).  name and fname are the client name and
\* the file name the handler decoded from the payload, for the requests
\* that carry one.
Event(s, code, cid, resp, err) ==
    [s |-> s, code |-> code, cid |-> cid, resp |-> resp, err |-> err,
     name |-> <<>>, fname |-> "", empty |-> FALSE]

NoErr == ""

\* A step that finished no request.
NoEvent == Event(0, 0, <<>>, NoResponse, NoErr)

\* The codec at work on a frame: op is what it did, order the byte order
\* of the build, resp and frame a response and its bytes, sent the fields
\* of a request, data the bytes the first recv returned, got what unpack
\* made of them.
Wire(op, order, resp, frame, sent, data, got) ==
    [op |-> op, order |-> order, resp |-> resp, frame |-> frame,
     sent |-> sent, data |-> data, got |-> got]

NoWire == Wire("none", "little", NoResponse, <<>>, StructError, <<>>,
               StructError)

\* handle_request on a stream: frame is the request at the head of the
\* stream, data what the first recv returned, payload what the second did,
\* pos the bytes of the stream consumed when handle_request is through with
\* the request, err the exception that left it.
Stream(op, frame, data, payload, pos, err) ==
    [op |-> op, frame |-> frame, data |-> data, payload |-> payload,
     pos |-> pos, err |-> err]

NoStream == Stream("none", <<>>, <<>>, <<>>, 0, NoErr)

\* The startup: pc is where it stands, entry the function that was called,
\* store the database file, found what the file held at the call, i the
\* index of the table at work, exists the result of table_exists for it,
\* results the dict built so far, caught whether sqlite3.Error was caught,
\* err the exception that left the entry function.
Boot(pc, entry, store) ==
    [pc |-> pc, entry |-> entry, store |-> store, found |-> store, i |-> 1,
     exists |-> FALSE, results |-> NoResults, caught |-> FALSE,
     err |-> NoErr]

\* A server that was constructed, not started by the functions above.
NoBoot == Boot("none", "", Store({}, [tb \in Tables |-> {}], 0))

\* The catalogs the server is started over: a new database, and one that an
\* earlier run left with a client that registered and exchanged keys.
WarmClient == Client(<<1, 1>>, <<97>>, "pk1", 0, "k1")
InitCatalogs == {{}, {WarmClient}}

Init ==
    /\ clients \in InitCatalogs
    /\ files = {}
    /\ blobs = [p \in Paths |-> NoBlob]
    /\ sess = [s \in Sessions |-> Thread("none", 0, <<>>)]
    /\ now = 0
    /\ ev = NoEvent
    /\ issued = {}
    /\ wire = NoWire
    /\ stream = NoStream
    /\ boot = NoBoot

\* The thread is in recv, waiting for a header, and a frame may still come.
AtRecv(s) == sess[s].pc = "recv" /\ now < MaxReq

\* The handler moves on to its next operation.
Goto(s, thread) ==
    /\ sess' = [sess EXCEPT ![s] = thread]
    /\ ev' = NoEvent

\* _handle_client without its except clauses, run by the acceptor itself:
\* the exception ends every thread.
RaisedEndsServer(s, code, cid, name, fname, err) ==
    /\ sess' = [t \in Sessions |-> Thread("closed", 0, <<>>)]
    /\ ev' = [Event(s, code, cid, NoResponse, err)
                 EXCEPT !.name = name, !.fname = fname]

\* The handler of a request that carried name or fname returned after
\* sending resp: back to recv.
ReturnedAbout(s, code, cid, name, fname, resp) ==
    /\ sess' = [sess EXCEPT ![s] = Thread("recv", 0, <<>>)]
    /\ ev' = [Event(s, code, cid, resp, NoErr)
                 EXCEPT !.name = name, !.fname = fname]

\* The handler returned after sending resp: back to recv.
Returned(s, code, cid, resp) == ReturnedAbout(s, code, cid, <<>>, "", resp)

\* _handle_client with its try inside the loop and no finally clause: the
\* exception is logged and the thread reads the next frame.
RaisedKeepsReading(s, code, cid, name, fname, err) ==
    /\ sess' = [sess EXCEPT ![s] = Thread("recv", 0, <<>>)]
    /\ ev' = [Event(s, code, cid, NoResponse, err)
                 EXCEPT !.name = name, !.fname = fname]

\* An exception left handle_request while it served a request that carried
\* name or fname: _handle_client logs it and closes the socket in its
\* finally clause.  Nothing is sent.
RaisedAbout(s, code, cid, name, fname, err) ==
    /\ sess' = [sess EXCEPT ![s] = Thread("closed", 0, <<>>)]
    /\ ev' = [Event(s, code, cid, NoResponse, err)
                 EXCEPT !.name = name, !.fname = fname]

\* An exception left handle_request while it served a SEND_FILE, whose
\* content_size was 0 (empty) or was not.
RaisedOnContent(s, code, cid, empty, err) ==
    /\ sess' = [sess EXCEPT ![s] = Thread("closed", 0, <<>>)]
    /\ ev' = [Event(s, code, cid, NoResponse, err) EXCEPT !.empty = empty]

\* An exception left handle_request.
Raised(s, code, cid, err) == RaisedAbout(s, code, cid, <<>>, "", err)

(***************************************************************************)
(* server.py                                                               *)
(***************************************************************************)
\* An acceptor that runs _handle_client itself instead of starting a
\* thread: it is back at accept() when that connection has ended.
AcceptInline(s) ==
    /\ sess[s].pc = "none"
    /\ \A t \in Sessions \ {s} : sess[t].pc \in {"none", "closed"}
    /\ Goto(s, Thread("recv", 0, <<>>))
    /\ UNCHANGED <<clients, files, blobs, issued, now, wire, stream, boot>>

\* Server.start: accept a connection and start its thread.  A connection
\* that is not accepted yet waits in the backlog of listen(5).
Accept(s) ==
    /\ sess[s].pc = "none"
    /\ Goto(s, Thread("recv", 0, <<>>))
    /\ UNCHANGED <<clients, files, blobs, issued, now, wire, stream, boot>>

\* A disconnect whose exception is caught nowhere and ends the process.
DisconnectEndsServer(s) ==
    /\ sess[s].pc = "recv"
    /\ sess' = [t \in Sessions |-> Thread("closed", 0, <<>>)]
    /\ ev' = Event(s, 0, <<>>, NoResponse, "ClientDisconnectedError")
    /\ UNCHANGED <<clients, files, blobs, issued, now, wire, stream, boot>>

\* recv returns b'': handle_request raises ClientDisconnectedError.
Disconnect(s) ==
    /\ sess[s].pc = "recv"
    /\ Raised(s, 0, <<>>, "ClientDisconnectedError")
    /\ UNCHANGED <<clients, files, blobs, issued, now, wire, stream, boot>>

\* recv raises ConnectionResetError: the peer reset the connection.
ConnectionReset(s) ==
    /\ sess[s].pc = "recv"
    /\ Raised(s, 0, <<>>, "ConnectionResetError")
    /\ UNCHANGED <<clients, files, blobs, issued, now, wire, stream, boot>>

(***************************************************************************)
(* protocol_handler.py: handle_request and the handlers it dispatches to.  *)
(* The first step of a handler takes the frame that recv returns.          *)
(***************************************************************************)
\* RequestCodes(code) raises ValueError for a code outside the enum, before
\* the payload is read and before any handler is looked up.
HandleUnknownCode(s) ==
    /\ AtRecv(s)
    /\ \E wid \in {ZeroId}, code \in UnknownCodes :
         Raised(s, code, StripNul(wid), "ValueError")
    /\ now' = now + 1
    /\ UNCHANGED <<clients, files, blobs, issued, wire, stream, boot>>

\* _handle_registration up to get_client.
HandleRegistrationLookup(s) ==
    /\ AtRecv(s)
    /\ \E raw \in RawNames : \E avail \in 0 .. Len(raw) :
         LET cid == StripNul(ZeroId)
             client_name == TrimName(Recv(raw, avail))
         IN  IF GetClient(clients, client_name) # {}
             THEN ReturnedAbout(s, REGISTRATION, cid, client_name, "",
                                Response(REGISTRATION_FAILED, <<>>))
             ELSE Goto(s, [Thread("reg_add", REGISTRATION, cid)
                              EXCEPT !.name = client_name])
    /\ now' = now + 1
    /\ UNCHANGED <<clients, files, blobs, issued, wire, stream, boot>>

\* _handle_registration from uuid4() on: add_client, then the response.
\* An INSERT the table refuses raises sqlite3.IntegrityError.
HandleRegistrationAdd(s) ==
    /\ sess[s].pc = "reg_add"
    /\ \E client_id \in GenIds :
         LET client == Client(client_id, sess[s].name, EmptyBytes, now,
                              EmptyBytes)
         IN  IF ClientsInsertOk(clients, client)
             THEN /\ clients' = AddClient(clients, client)
                  /\ issued' = issued \cup
                        {[id |-> client_id, name |-> sess[s].name,
                          s |-> s]}
                  /\ ReturnedAbout(s, REGISTRATION, sess[s].cid,
                        sess[s].name, "",
                        Response(REGISTRATION_SUCCESS, <<client_id>>))
             ELSE /\ RaisedAbout(s, REGISTRATION, sess[s].cid,
                                 sess[s].name, "", "IntegrityError")
                  /\ UNCHANGED <<clients, issued>>
    /\ UNCHANGED <<files, blobs, now, wire, stream, boot>>

\* _handle_reconnect
HandleReconnect(s) ==
    /\ AtRecv(s)
    /\ \E raw \in RawNames : \E avail \in 0 .. Len(raw) :
         LET cid == StripNul(ZeroId)
             client_name == TrimName(Recv(raw, avail))
             results == GetClient(clients, client_name)
             rejected == Response(RECONNECT_REJECTED, <<RestartText>>)
         IN  IF results = {}
             THEN ReturnedAbout(s, RECONNECT, cid, client_name, "", rejected)
             ELSE \E client \in results :
                    IF client.public_key = EmptyBytes
                    THEN ReturnedAbout(s, RECONNECT, cid, client_name, "",
                                       rejected)
                    ELSE IF ~ImportKeyOk(client.public_key)
                    THEN RaisedAbout(s, RECONNECT, cid, client_name, "",
                                     "ValueError")
                    ELSE ReturnedAbout(s, RECONNECT, cid, client_name, "",
                           Response(APPROVE_RECONNECT_SEND_AES,
                             <<client.id,
                               OaepEncrypt(client.public_key,
                                           client.aes_key)>>))
    /\ now' = now + 1
    /\ UNCHANGED <<clients, files, blobs, issued, wire, stream, boot>>

\* _handle_public_key up to RSA.import_key: the catalog is updated first,
\* the key is imported after.
HandlePublicKeyUpdate(s) ==
    /\ AtRecv(s)
    /\ \E wid \in GenIds, public_key_pem \in PubKeyInputs,
          aes_key \in AesKeys :
         LET cid == StripNul(wid)
         IN  /\ clients' = UpdatePublicKeyAndAesKey(clients, cid, aes_key,
                                                    public_key_pem)
             /\ IF ImportKeyOk(public_key_pem)
                THEN Goto(s, [Thread("pk_send", SEND_PUBLIC_KEY, cid)
                                 EXCEPT !.wid = wid,
                                        !.pub = public_key_pem,
                                        !.aes = aes_key])
                ELSE Raised(s, SEND_PUBLIC_KEY, cid, "ValueError")
    /\ now' = now + 1
    /\ UNCHANGED <<files, blobs, issued, wire, stream, boot>>

\* _handle_public_key: the response.
HandlePublicKeySend(s) ==
    /\ sess[s].pc = "pk_send"
    /\ Returned(s, SEND_PUBLIC_KEY, sess[s].cid,
                Response(RECEIVED_PUBLIC_KEY_SEND_AES,
                         <<sess[s].cid,
                           OaepEncrypt(sess[s].pub, sess[s].aes)>>))
    /\ UNCHANGED <<clients, files, blobs, issued, now, wire, stream, boot>>

\* _handle_file_transfer up to decrypt_aes_cbc.  [0][0] of an empty result
\* raises IndexError.
HandleFileTransferKey(s) ==
    /\ AtRecv(s)
    /\ \E wid \in GenIds, file_name \in FileNames,
          ct \in Ciphertexts \cup {EmptyContent} :
         LET cid == StripNul(wid)
             rows == GetAesKeyRows(clients, cid)
             empty == ContentSize(ct) = 0
         IN  IF rows = {}
             THEN RaisedOnContent(s, SEND_FILE, cid, empty, "IndexError")
             ELSE \E aes_key \in rows :
                  \E decrypted_file \in DecryptAesCbc(ct, aes_key) :
                    IF decrypted_file = DecryptError
                    THEN RaisedOnContent(s, SEND_FILE, cid, empty,
                                         "ValueError")
                    ELSE Goto(s, [Thread("file_write", SEND_FILE, cid)
                                     EXCEPT !.aes = aes_key,
                                            !.fname = file_name,
                                            !.ct = ct,
                                            !.plain = decrypted_file])
    /\ now' = now + 1
    /\ UNCHANGED <<clients, files, blobs, issued, wire, stream, boot>>

\* _handle_file_transfer: FileHandler(...).write_value(decrypted_file); its
\* result is not looked at.
HandleFileTransferWrite(s) ==
    /\ sess[s].pc = "file_write"
    /\ \E ok \in BOOLEAN :
         blobs' = WriteValue(blobs, PathName(sess[s].fname), sess[s].plain,
                             ok)
    /\ Goto(s, [sess[s] EXCEPT !.pc = "file_add"])
    /\ UNCHANGED <<clients, files, issued, now, wire, stream, boot>>

\* _handle_file_transfer: add_file
HandleFileTransferAdd(s) ==
    /\ sess[s].pc = "file_add"
    /\ files' = AddFile(files, File(sess[s].cid, sess[s].fname,
                                    PathName(sess[s].fname), FALSE))
    /\ Goto(s, [sess[s] EXCEPT !.pc = "file_crc"])
    /\ UNCHANGED <<clients, blobs, issued, now, wire, stream, boot>>

\* _handle_file_transfer: readfile_crc32(file.path_name), which opens the
\* file again, and the response.
HandleFileTransferCrc(s) ==
    /\ sess[s].pc = "file_crc"
    /\ LET blob == blobs[PathName(sess[s].fname)]
       IN  IF blob = NoBlob
           THEN RaisedAbout(s, SEND_FILE, sess[s].cid, <<>>, sess[s].fname,
                            "FileNotFoundError")
           ELSE ReturnedAbout(s, SEND_FILE, sess[s].cid, <<>>, sess[s].fname,
                              Response(FILE_RECEIVED_CRC_OK,
                                       <<sess[s].cid, ContentSize(sess[s].ct),
                                         sess[s].fname, Crc32(blob)>>))
    /\ UNCHANGED <<clients, files, blobs, issued, now, wire, stream, boot>>

\* _handle_message_received_approval
HandleMessageReceivedApproval(s) ==
    /\ AtRecv(s)
    /\ \E wid \in GenIds, file_name \in FileNames :
         LET cid == StripNul(wid)
         IN  /\ files' = UpdateFileVerified(files, cid, file_name, TRUE)
             /\ ReturnedAbout(s, CRC_CORRECT, cid, <<>>, file_name,
                              Response(CONFIRM_MSG, <<cid>>))
    /\ now' = now + 1
    /\ UNCHANGED <<clients, blobs, issued, wire, stream, boot>>

\* CRC_INCORRECT_RESEND registered to _handle_message_received_approval.
CrcInvalidResendAsApproval(s) ==
    /\ AtRecv(s)
    /\ \E wid \in GenIds, file_name \in FileNames :
         LET cid == StripNul(wid)
         IN  /\ files' = UpdateFileVerified(files, cid, file_name, TRUE)
             /\ ReturnedAbout(s, CRC_INCORRECT_RESEND, cid, <<>>, file_name,
                              Response(CONFIRM_MSG, <<cid>>))
    /\ now' = now + 1
    /\ UNCHANGED <<clients, blobs, issued, wire, stream, boot>>

\* _handle_crc_invalid_resend: prints, and sends nothing.
HandleCrcInvalidResend(s) ==
    /\ AtRecv(s)
    /\ \E wid \in GenIds :
         Returned(s, CRC_INCORRECT_RESEND, StripNul(wid), NoResponse)
    /\ now' = now + 1
    /\ UNCHANGED <<clients, files, blobs, issued, wire, stream, boot>>

\* CRC_INCORRECT_DONE registered to _handle_message_received_approval.
CrcIncorrectDoneAsApproval(s) ==
    /\ AtRecv(s)
    /\ \E wid \in GenIds, file_name \in FileNames :
         LET cid == StripNul(wid)
         IN  /\ files' = UpdateFileVerified(files, cid, file_name, TRUE)
             /\ ReturnedAbout(s, CRC_INCORRECT_DONE, cid, <<>>, file_name,
                              Response(CONFIRM_MSG, <<cid>>))
    /\ now' = now + 1
    /\ UNCHANGED <<clients, blobs, issued, wire, stream, boot>>

\* A _send_general_error that drops the files of the client that are not
\* verified before it answers.
SendGeneralErrorDiscards(s) ==
    /\ AtRecv(s)
    /\ \E wid \in GenIds :
         LET cid == StripNul(wid)
         IN  /\ files' = {f \in files : f.id # cid \/ f.verified}
             /\ Returned(s, CRC_INCORRECT_DONE, cid,
                         Response(GENERAL_ERROR, <<GeneralErrorText>>))
    /\ now' = now + 1
    /\ UNCHANGED <<clients, blobs, issued, wire, stream, boot>>

\* _send_general_error, the handler registered for CRC_INCORRECT_DONE.
SendGeneralError(s) ==
    /\ AtRecv(s)
    /\ \E wid \in GenIds :
         Returned(s, CRC_INCORRECT_DONE, StripNul(wid),
                  Response(GENERAL_ERROR, <<GeneralErrorText>>))
    /\ now' = now + 1
    /\ UNCHANGED <<clients, files, blobs, issued, wire, stream, boot>>

Next ==
    \E s \in Sessions :
        \/ Accept(s)
        \/ Disconnect(s)
        \/ ConnectionReset(s)
        \/ HandleUnknownCode(s)
        \/ HandleRegistrationLookup(s)
        \/ HandleRegistrationAdd(s)
        \/ HandleReconnect(s)
        \/ HandlePublicKeyUpdate(s)
        \/ HandlePublicKeySend(s)
        \/ HandleFileTransferKey(s)
        \/ HandleFileTransferWrite(s)
        \/ HandleFileTransferAdd(s)
        \/ HandleFileTransferCrc(s)
        \/ HandleMessageReceivedApproval(s)
        \/ HandleCrcInvalidResend(s)
        \/ SendGeneralError(s)

Spec == Init /\ [][Next]_vars

\* What thread s does without waiting for its peer: the operations of a
\* handler after the frame was read.
HandlerStep(s) ==
    \/ HandleRegistrationAdd(s)
    \/ HandlePublicKeySend(s)
    \/ HandleFileTransferWrite(s)
    \/ HandleFileTransferAdd(s)
    \/ HandleFileTransferCrc(s)

\* The acceptor and every connection thread are threads of their own, which
\* the interpreter keeps scheduling: the acceptor blocks in accept() only,
\* a connection thread in recv() only.  When a peer sends its next frame,
\* or closes, is up to the peer.
Fairness ==
    \A s \in Sessions : WF_vars(Accept(s)) /\ WF_vars(HandlerStep(s))

\* A server that has been up for a while: the frames of the run but the
\* last were served on connections that are gone, and left the catalog of
\* a run that had started.
BusyInit ==
    /\ clients \in InitCatalogs
    /\ files = {}
    /\ blobs = [p \in Paths |-> NoBlob]
    /\ sess = [s \in Sessions |-> Thread("none", 0, <<>>)]
    /\ now = MaxReq - 1
    /\ ev = NoEvent
    /\ issued = {}
    /\ wire = NoWire
    /\ stream = NoStream
    /\ boot = NoBoot

FairSpec == BusyInit /\ [][Next]_vars /\ Fairness

(***************************************************************************)
(* The frame codec on its own: one frame at a time is encoded or decoded.  *)
(***************************************************************************)
WireInit ==
    /\ clients = {}
    /\ files = {}
    /\ blobs = [p \in Paths |-> NoBlob]
    /\ sess = [s \in Sessions |-> Thread("none", 0, <<>>)]
    /\ now = 0
    /\ ev = NoEvent
    /\ issued = {}
    /\ \E order \in ByteOrders :
         wire = Wire("none", order, NoResponse, <<>>, StructError, <<>>,
                     StructError)
    /\ stream = NoStream
    /\ boot = NoBoot

\* client_socket.sendall(response.to_bytes())
SendResponse ==
    /\ \E code \in REGISTRATION_SUCCESS .. GENERAL_ERROR,
          payload \in Payloads :
         LET resp == Response(code, payload)
         IN  wire' = Wire("to_bytes", wire.order, resp, ToBytes(resp),
                          StructError, <<>>, StructError)
    /\ UNCHANGED <<clients, files, blobs, sess, now, ev, issued, stream,
                 boot>>

\* handle_request up to struct.unpack, on the frame of a request.
ReceiveHeader ==
    /\ \E client_id \in WireIds, code \in RequestCodes \cup UnknownCodes,
          payload \in Payloads :
         LET version == Utf8Encode(SERVER_VERSION)[1]
             frame == RequestFrame(client_id, version, code, payload)
             size_without_payload == Calcsize(FormatString)
             data == IF Len(frame) < size_without_payload
                     THEN frame
                     ELSE Recv(frame, size_without_payload)
         IN  wire' = Wire("unpack", wire.order, NoResponse, <<>>,
                          Header(TRUE, client_id, version, code,
                                 Len(payload)),
                          data, Unpack(FormatString, data, wire.order))
    /\ UNCHANGED <<clients, files, blobs, sess, now, ev, issued, stream,
                 boot>>

WireNext == SendResponse \/ ReceiveHeader

WireSpec == WireInit /\ [][WireNext]_vars

(***************************************************************************)
(* The reads of handle_request on a stream.                                *)
(***************************************************************************)
\* handle_request at the start of a stream that holds a request twice, back
\* to back, and arrives in two segments: the first cut bytes are there when
\* handle_request is called, the others come when a recv waits for them.
\* recv(n) waits for one byte and returns what has arrived, n bytes at
\* most; recv(0) returns b''.  The request is laid out in the 23 bytes of
\* RequestFrame or as this build unpacks it.
HandleRequestReads ==
    /\ stream.op = "none"
    /\ \E client_id \in WireIds, code \in RequestCodes,
          payload \in {p \in Payloads : Len(p) <= 2}, native \in BOOLEAN :
         LET version == Utf8Encode(SERVER_VERSION)[1]
             frame == IF native
                      THEN NativeFrame(client_id, version, code, payload,
                                       wire.order)
                      ELSE RequestFrame(client_id, version, code, payload)
             bytes == frame \o frame
             size_without_payload == Calcsize(FormatString)
         IN  \E cut \in 1 .. Len(bytes) :
               LET data == Recv(bytes, IF cut < size_without_payload
                                       THEN cut
                                       ELSE size_without_payload)
                   rest == SubSeq(bytes, Len(data) + 1, Len(bytes))
                   there == IF cut > Len(data) THEN cut - Len(data)
                            ELSE Len(rest)
                   got == Unpack(FormatString, data, wire.order)
               IN  IF ~got.ok
                   THEN stream' = Stream("read", frame, data, <<>>,
                                         Len(data), "struct.error")
                   ELSE IF got.code \notin RequestCodes
                   THEN stream' = Stream("read", frame, data, <<>>,
                                         Len(data), "ValueError")
                   ELSE LET payload_read ==
                                Recv(rest, IF there < got.payload_size
                                           THEN there
                                           ELSE got.payload_size)
                        IN  stream' = Stream("read", frame, data,
                                             payload_read,
                                             Len(data) + Len(payload_read),
                                             NoErr)
    /\ UNCHANGED <<clients, files, blobs, sess, now, ev, issued, wire, boot>>

StreamSpec == WireInit /\ [][HandleRequestReads]_vars

(***************************************************************************)
(* Startup.  Every statement goes through perform_query, which opens the   *)
(* file anew; sqlite3.Error from it leaves table_exists and is caught in   *)
(* cache_tables_data.                                                      *)
(***************************************************************************)
StartInit ==
    /\ clients = {}
    /\ files = {}
    /\ blobs = [p \in Paths |-> NoBlob]
    /\ sess = [s \in Sessions |-> Thread("none", 0, <<>>)]
    /\ now = 0
    /\ ev = NoEvent
    /\ issued = {}
    /\ wire = NoWire
    /\ stream = NoStream
    /\ boot \in {Boot("begin", "", store) : store \in Stores}

\* Where the startup stands when cache_tables_data has returned:
\* initialize_server goes on to build the Server, which main() starts.
AfterCache(entry) ==
    IF entry = "initialize_server" THEN "listening" ELSE "returned"

\* except sqlite3.Error in cache_tables_data
CaughtSqliteError(b) ==
    [b EXCEPT !.pc = AfterCache(b.entry), !.results = EmptyResults,
              !.caught = TRUE]

\* Server.initialize_server up to cache_tables_data: the DatabaseHandler
\* call raises TypeError when a parameter without default is not passed,
\* and the attribute lookup of a method the class does not define raises
\* AttributeError.
InitializeServer ==
    /\ boot.pc = "begin"
    /\ boot' =
         IF ~(InitParameters \subseteq InitializeServerPasses)
         THEN [boot EXCEPT !.pc = "raised", !.entry = "initialize_server",
                           !.err = "TypeError"]
         ELSE IF "initialize_table" \notin Methods
         THEN [boot EXCEPT !.pc = "raised", !.entry = "initialize_server",
                           !.err = "AttributeError"]
         ELSE [boot EXCEPT !.pc = "exists", !.entry = "initialize_server"]
    /\ UNCHANGED <<clients, files, blobs, sess, now, ev, issued, wire,
                   stream>>

\* cache_tables_data called on a DatabaseHandler that was given all its
\* arguments.
CacheTablesData ==
    /\ boot.pc = "begin"
    /\ boot' = [boot EXCEPT !.pc = "exists", !.entry = "cache_tables_data"]
    /\ UNCHANGED <<clients, files, blobs, sess, now, ev, issued, wire,
                   stream>>

\* cache_tables_data: self.table_exists(table_name)
TableExists ==
    /\ boot.pc = "exists"
    /\ boot' =
         IF boot.store.left = 0 THEN CaughtSqliteError(boot)
         ELSE [boot EXCEPT !.pc = "load",
                           !.exists = TableNames[boot.i] \in boot.store.has,
                           !.store.left = @ - 1]
    /\ UNCHANGED <<clients, files, blobs, sess, now, ev, issued, wire,
                   stream>>

\* cache_tables_data: fetch_init through perform_query_to_data_model for a
\* table that exists, create_command through perform_query for one that
\* does not; then the next table, or return results.
FetchOrCreate ==
    /\ boot.pc = "load"
    /\ LET table_name == TableNames[boot.i]
           rows == IF boot.exists THEN boot.store.rows[table_name] ELSE {}
       IN  boot' =
             IF boot.store.left = 0 THEN CaughtSqliteError(boot)
             ELSE [boot EXCEPT
                     !.pc = IF boot.i = Len(TableNames)
                            THEN AfterCache(boot.entry)
                            ELSE "exists",
                     !.i = @ + 1,
                     !.store.has = @ \cup {table_name},
                     !.store.left = @ - 1,
                     !.results =
                        Results(@.keys \cup {table_name},
                                [@.rows EXCEPT ![table_name] = rows])]
    /\ UNCHANGED <<clients, files, blobs, sess, now, ev, issued, wire,
                   stream>>

StartNext ==
    InitializeServer \/ CacheTablesData \/ TableExists \/ FetchOrCreate

StartSpec == StartInit /\ [][StartNext]_vars

(***************************************************************************)
(* Properties                                                              *)
(***************************************************************************)
\* The last step finished a request frame of thread ev.s (it did not end on
\* the peer closing or resetting the connection).
FinishedRequest ==
    /\ ev.s \in Sessions
    /\ ev.err \notin {"ClientDisconnectedError", "ConnectionResetError"}

\* No row of cl with this id holds an AES key.
NoAesKey(cl, id) == \A c \in cl : c.id = id => c.aes_key = EmptyBytes

\* C1: in every reachable state no two rows of the clients table have the
\* same name.
NoTwoClientsShareName ==
    \A c1, c2 \in clients : c1.name = c2.name => c1 = c2

\* C2: of the sessions that send REGISTRATION with the same trimmed name,
\* racing or not, one only is answered with REGISTRATION_SUCCESS.
OneRegistrationSuccessPerName ==
    \A x, y \in issued : x.name = y.name => x = y

\* C3: when RECEIVED_PUBLIC_KEY_SEND_AES is sent for the id of a client, the
\* AES key wrapped in it is the AES key the catalog holds for that id at
\* that moment.
WrappedKeyIsStoredKey ==
    (ev.resp.code = RECEIVED_PUBLIC_KEY_SEND_AES
        /\ \E c \in clients : c.id = ev.cid)
    => \A c \in clients : c.id = ev.cid => c.aes_key = ev.resp.payload[2].key

\* C4: a SEND_FILE that carries the encryption of P under the key the
\* catalog held for the sender, and is answered with FILE_RECEIVED_CRC_OK,
\* is answered with crc32(P) in the last field of the payload.
FileCrcIsCrcOfPlaintext ==
    [][\A s \in Sessions :
          (/\ sess[s].pc = "file_crc"
           /\ sess[s].ct.k = sess[s].aes
           /\ ev'.s = s
           /\ ev'.resp.code = FILE_RECEIVED_CRC_OK)
          => ev'.resp.payload[4] = Crc32(sess[s].ct.p)]_vars

\* C5: every row of the files table, verified or not, has an owner id that
\* is in the clients table with an AES key that is set.
FilesOwnerHasAesKey ==
    \A f \in files :
        \E c \in clients : c.id = f.id /\ c.aes_key # EmptyBytes

\* C5, witness: the table holds a verified row and a row that is not.
VerifiedAndUnverifiedFile ==
    /\ \E f \in files : f.verified
    /\ \E f \in files : ~f.verified

\* C6: the id of a REGISTRATION_SUCCESS response is the id of no client
\* that was in the catalog and of no earlier REGISTRATION_SUCCESS response,
\* whichever id uuid4 returned.
RegistrationIdIsFresh ==
    [][\A x \in issued' \ issued :
          /\ x.id \notin {c.id : c \in clients}
          /\ x.id \notin {y.id : y \in issued}]_vars

\* C6, witness: REGISTRATION_SUCCESS was just sent by a server whose
\* catalog held a client before and that had sent one before.
RegistrationSuccessAmongClients ==
    /\ ev.resp.code = REGISTRATION_SUCCESS
    /\ Cardinality(clients) > 2
    /\ Cardinality(issued) > 1

\* C7: a request frame whose code is none of 1025..1031 is answered with
\* GENERAL_ERROR and its session stays open for the next request.
UnknownCodeGetsGeneralError ==
    (FinishedRequest /\ ev.code \notin RequestCodes)
    => (ev.resp.code = GENERAL_ERROR /\ sess[ev.s].pc = "recv")

\* C8: when the handler of a request fails, GENERAL_ERROR is sent for the
\* request and the connection stays open.
HandlerFailureGetsGeneralError ==
    (FinishedRequest /\ ev.code \in RequestCodes /\ ev.err # NoErr)
    => (ev.resp.code = GENERAL_ERROR /\ sess[ev.s].pc = "recv")

\* C9: a SEND_FILE whose client id has no AES key in the catalog is answered
\* with GENERAL_ERROR, writes no blob and inserts no files row.
SendFileWithoutKeyRejected ==
    [][\A s \in Sessions :
          (/\ sess[s].pc = "recv"
           /\ ev'.s = s
           /\ ev'.code = SEND_FILE
           /\ NoAesKey(clients, ev'.cid))
          => (/\ ev'.resp.code = GENERAL_ERROR
              /\ blobs' = blobs
              /\ files' = files)]_vars

\* C10: CRC_INCORRECT_DONE is answered with CONFIRM_MSG whose payload is the
\* client id of the request.
CrcIncorrectDoneConfirmed ==
    (FinishedRequest /\ ev.code = CRC_INCORRECT_DONE)
    => (ev.resp.code = CONFIRM_MSG /\ ev.resp.payload = <<ev.cid>>)

\* The last step finished a request frame with this code.
Finished(code) == FinishedRequest /\ ev.code = code

\* The rows of fl for the pair (id, file_name).
FileRows(fl, id, file_name) ==
    {f \in fl : f.id = id /\ f.file_name = file_name}

\* C11: the step that processes CRC_INCORRECT_DONE leaves every row of the
\* files table as it was; a row staged with verified = false stays so.
CrcIncorrectDoneKeepsFiles ==
    [][(ev'.s \in Sessions /\ ev'.code = CRC_INCORRECT_DONE)
          => files' = files]_vars

\* C11, witness: CRC_INCORRECT_DONE was processed for a client that has a
\* staged file, which is still not verified.
CrcIncorrectDoneOnStagedFile ==
    /\ Finished(CRC_INCORRECT_DONE)
    /\ \E f \in files : f.id = ev.cid /\ ~f.verified

\* C12: CRC_CORRECT for a (client id, file name) that has a files row sets
\* verified on that row and on no other, changes no clients row, and is
\* answered with CONFIRM_MSG whose payload is the client id.
CrcCorrectVerifiesThatRow ==
    [][(/\ ev'.s \in Sessions
        /\ ev'.code = CRC_CORRECT
        /\ FileRows(files, ev'.cid, ev'.fname) # {})
          => (/\ files' = {IF f.id = ev'.cid /\ f.file_name = ev'.fname
                           THEN File(f.id, f.file_name, f.path_name, TRUE)
                           ELSE f : f \in files}
              /\ clients' = clients
              /\ ev'.resp.code = CONFIRM_MSG
              /\ \E f \in files : ev'.resp.payload = <<f.id>>
                                  /\ f.id = ev'.cid)]_vars

\* C12, witness: CRC_CORRECT was answered for a file that is now verified,
\* while the same client has another file that is not.
CrcCorrectAmongFiles ==
    /\ Finished(CRC_CORRECT)
    /\ \E f \in files : f.id = ev.cid /\ f.file_name = ev.fname /\ f.verified
    /\ \E f \in files : f.id = ev.cid /\ f.file_name # ev.fname
                        /\ ~f.verified

\* C13: CRC_CORRECT for a (client id, file name) that has no files row is
\* not answered with CONFIRM_MSG, and creates and changes no row.
CrcCorrectUnknownFileRejected ==
    [][(/\ ev'.s \in Sessions
        /\ ev'.code = CRC_CORRECT
        /\ FileRows(files, ev'.cid, ev'.fname) = {})
          => (/\ ev'.resp.code # CONFIRM_MSG
              /\ files' = files
              /\ clients' = clients)]_vars

\* C14: a SEND_PUBLIC_KEY whose header client id, as sent and as decoded,
\* is the id of no clients row is not answered with
\* RECEIVED_PUBLIC_KEY_SEND_AES.
SendPublicKeyUnknownClientRejected ==
    [][\A s \in Sessions :
          (/\ sess[s].pc = "pk_send"
           /\ ev'.s = s
           /\ \A c \in clients : c.id \notin {sess[s].wid, sess[s].cid})
          => ev'.resp.code # RECEIVED_PUBLIC_KEY_SEND_AES]_vars

\* C15: when a SEND_PUBLIC_KEY carries an id that REGISTRATION issued, the
\* id the server decodes is the header field less its trailing NUL bytes,
\* and the keys of the request are stored on the row of that id.
IssuedIdReachesItsRow ==
    [][\A s \in Sessions :
          (/\ sess[s].pc = "recv"
           /\ sess'[s].pc = "pk_send"
           /\ sess'[s].wid \in {x.id : x \in issued})
          => (/\ sess'[s].cid = RStrip(sess'[s].wid, {0})
              /\ \E c \in clients' :
                    /\ c.id = sess'[s].wid
                    /\ c.public_key = sess'[s].pub
                    /\ c.aes_key = sess'[s].aes)]_vars

ReconnectRejectedOrApproved ==
    Finished(RECONNECT)
    => IF ev.resp.code = RECONNECT_REJECTED
       THEN /\ ev.resp.payload = <<RestartText>>
            /\ \A c \in clients :
                  c.name = ev.name => c.public_key = EmptyBytes
       ELSE /\ ev.resp.code = APPROVE_RECONNECT_SEND_AES
            /\ \E c \in clients :
                  c.name = ev.name /\ c.public_key # EmptyBytes

\* C18: the public key and the AES key of a client change in one step, to
\* the pair of one SEND_PUBLIC_KEY; what RECONNECT wraps is the pair of one
\* row as one state of the catalog holds it, and the key SEND_FILE decrypts
\* with is the AES key of a row of that state.
KeysSetAndReadTogether ==
    [][/\ \A c \in clients, d \in clients' :
            c.id = d.id
            => \/ d.public_key = c.public_key /\ d.aes_key = c.aes_key
               \/ \E s \in Sessions :
                     /\ sess[s].pc = "recv"
                     /\ \/ /\ sess'[s].pc = "pk_send"
                           /\ sess'[s].cid = d.id
                           /\ d.public_key = sess'[s].pub
                           /\ d.aes_key = sess'[s].aes
                        \/ /\ ev'.s = s
                           /\ ev'.code = SEND_PUBLIC_KEY
                           /\ ev'.err # NoErr
                           /\ ev'.cid = d.id
                           /\ ~ImportKeyOk(d.public_key)
                           /\ d.aes_key \in AesKeys
       /\ ev'.resp.code = APPROVE_RECONNECT_SEND_AES
          => ev'.resp.payload[2] \in
                {OaepEncrypt(c.public_key, c.aes_key) : c \in clients}
       /\ \A s \in Sessions :
            (sess[s].pc = "recv" /\ sess'[s].pc = "file_write")
            => sess'[s].aes \in
                 {c.aes_key : c \in {x \in clients : x.id = sess'[s].cid}}]_vars

\* C18, witness: a reconnect was answered with the pair of a key exchange
\* whose own response is still to be sent by another thread.
ReconnectDuringKeyExchange ==
    /\ ev.resp.code = APPROVE_RECONNECT_SEND_AES
    /\ \E s \in Sessions :
         /\ sess[s].pc = "pk_send"
         /\ sess[s].cid = ev.resp.payload[1]
         /\ ev.resp.payload[2] = OaepEncrypt(sess[s].pub, sess[s].aes)

RegistrationThenDuplicate ==
    [][\A s \in Sessions :
          /\ (sess[s].pc = "recv" /\ sess'[s].pc = "reg_add")
             => \A c \in clients : c.name # sess'[s].name
          /\ (sess[s].pc = "recv" /\ ev'.s = s /\ ev'.code = REGISTRATION)
             => (/\ \E c \in clients : c.name = ev'.name
                 /\ ev'.resp = Response(REGISTRATION_FAILED, <<>>)
                 /\ clients' = clients
                 /\ files' = files)
          /\ (sess[s].pc = "reg_add" /\ sess'[s] # sess[s])
             => (/\ ev'.s = s
                 /\ ev'.code = REGISTRATION
                 /\ ev'.name = sess[s].name
                 /\ IF ev'.err = NoErr
                    THEN /\ ev'.resp.code = REGISTRATION_SUCCESS
                         /\ ev'.resp.payload[1] \in GenIds
                         /\ clients \subseteq clients'
                         /\ clients' \ clients =
                              {Client(ev'.resp.payload[1], ev'.name,
                                      EmptyBytes, now, EmptyBytes)}
                    ELSE /\ clients' = clients
                         /\ clients # {})]_vars

\* C20, witness: REGISTRATION_FAILED was sent for a name that was answered
\* with REGISTRATION_SUCCESS earlier in the run.
RegistrationFailedAfterSuccess ==
    /\ Finished(REGISTRATION)
    /\ ev.resp.code = REGISTRATION_FAILED
    /\ \E x \in issued : x.name = ev.name

\* The threads that are inside a handler, between two of its operations.
InHandler(s) ==
    sess[s].pc \in {"reg_add", "pk_send", "file_write", "file_add", "file_crc"}

\* C21: every request frame a session read is answered with a response
\* frame before the session reads its next frame.
EveryRequestAnswered ==
    FinishedRequest => ev.resp # NoResponse

\* C22: the step that serves CRC_INCORRECT_RESEND changes no clients row, no
\* files row and no blob, sends nothing, and leaves the session reading.
CrcInvalidResendIsSilent ==
    [][(ev'.s \in Sessions /\ ev'.code = CRC_INCORRECT_RESEND)
          => (/\ clients' = clients
              /\ files' = files
              /\ blobs' = blobs
              /\ ev'.resp = NoResponse
              /\ ev'.err = NoErr
              /\ sess'[ev'.s].pc = "recv")]_vars

\* C22, witness: CRC_INCORRECT_RESEND was served for a client that has a
\* file staged, and its session is reading again.
CrcInvalidResendOnStagedFile ==
    /\ Finished(CRC_INCORRECT_RESEND)
    /\ sess[ev.s].pc = "recv"
    /\ \E f \in files : f.id = ev.cid /\ ~f.verified

\* C23: when the header read returns no bytes the session ends: nothing is
\* sent, no table and no blob changes, the socket is closed, and no other
\* thread is touched.
DisconnectEndsOnlyItsSession ==
    [][(ev'.s \in Sessions /\ ev'.err = "ClientDisconnectedError")
          => (/\ ev'.resp = NoResponse
              /\ clients' = clients
              /\ files' = files
              /\ blobs' = blobs
              /\ sess[ev'.s].pc = "recv"
              /\ sess'[ev'.s].pc = "closed"
              /\ \A t \in Sessions \ {ev'.s} : sess'[t] = sess[t])]_vars

\* C23, witness: a peer closed its connection while the other thread was
\* inside a handler.
DisconnectBesideHandler ==
    /\ ev.s \in Sessions
    /\ ev.err = "ClientDisconnectedError"
    /\ \E t \in Sessions \ {ev.s} : InHandler(t)

\* C25: an exception raised while a request is handled ends the session of
\* that request and leaves every other thread where it was.
FailureEndsOnlyItsSession ==
    [][(/\ ev'.s \in Sessions
        /\ ev'.err \notin {NoErr, "ClientDisconnectedError"})
          => (/\ sess'[ev'.s].pc = "closed"
              /\ \A t \in Sessions \ {ev'.s} : sess'[t] = sess[t])]_vars

\* C25, witness: a handler raised while the other thread was inside a
\* handler of its own.
FailureBesideHandler ==
    /\ FinishedRequest
    /\ ev.err # NoErr
    /\ ev.code \in RequestCodes
    /\ \E t \in Sessions \ {ev.s} : InHandler(t)

\* C30: no step removes a clients row or changes the id or the name of
\* one: every (id, name) in the table is in it after the step, and a row
\* differs from what it was in public_key, aes_key and last_seen at most.
ClientRowsStay ==
    [][\A c \in clients :
          \E d \in clients' : d.id = c.id /\ d.name = c.name]_vars

\* C30, witness: the client the server started with has exchanged keys
\* again and another client has registered.
ClientRekeyedAmongOthers ==
    /\ \E c \in clients :
         /\ c.id = WarmClient.id
         /\ c.name = WarmClient.name
         /\ c.public_key # WarmClient.public_key
    /\ Cardinality(clients) > 1

\* C24: no handler runs on a payload of which the peer sent a part only:
\* every name a handler worked on, and every name in the catalog, is the
\* name of a whole payload.
NoHandlerOnTruncatedPayload ==
    /\ \A s \in Sessions : sess[s].pc = "reg_add" => sess[s].name \in Names
    /\ (Finished(REGISTRATION) \/ Finished(RECONNECT)) => ev.name \in Names
    /\ \A c \in clients : c.name \in Names

\* C29: a SEND_FILE with content_size 0 from a client that holds an AES key
\* is not turned down; it is answered with FILE_RECEIVED_CRC_OK and CRC 0,
\* with an empty blob at its path and a files row that is not verified.
EmptyFileAccepted ==
    [][\A s \in Sessions :
          /\ (/\ sess[s].pc = "recv"
              /\ ev'.s = s
              /\ ev'.code = SEND_FILE
              /\ ev'.empty
              /\ \E c \in clients : c.id = ev'.cid /\ c.aes_key \in AesKeys)
             => ev'.err = NoErr
          /\ (/\ sess[s].pc = "file_crc"
              /\ ContentSize(sess[s].ct) = 0
              /\ ev'.s = s)
             => (/\ ev'.resp.code = FILE_RECEIVED_CRC_OK
                 /\ ev'.resp.payload[4] = <<0, 0, 0, 0>>
                 /\ blobs[PathName(sess[s].fname)] = <<>>
                 /\ \E f \in FileRows(files, sess[s].cid, sess[s].fname) :
                       ~f.verified)]_vars

\* C26: whatever the other sessions wait for, a connection in the backlog
\* is accepted and given its thread, and a request that was read is
\* handled to its end.
AcceptorNeverWaits ==
    \A s \in Sessions :
        /\ (sess[s].pc = "none") ~> (sess[s].pc # "none")
        /\ InHandler(s) ~> ~InHandler(s)

\* C26, witness: one session waits in recv for a frame, with no frame to
\* come, and the other was accepted after it and is inside a handler.
HandlerBesideIdleSession ==
    \E s, t \in Sessions :
        /\ sess[s].pc = "recv"
        /\ InHandler(t)
        /\ now = MaxReq

\* C27: a response frame is the byte '3', the code in 2 bytes big-endian,
\* the number of payload bytes in 4 bytes big-endian, and the payload.
ResponseFrameLayout ==
    wire.op = "to_bytes"
    => /\ Len(wire.frame) = 7 + Len(wire.resp.payload)
       /\ wire.frame[1] = 51
       /\ 256 * wire.frame[2] + wire.frame[3] = wire.resp.code
       /\ 16777216 * wire.frame[4] + 65536 * wire.frame[5]
            + 256 * wire.frame[6] + wire.frame[7] = Len(wire.frame) - 7
       /\ SubSeq(wire.frame, 8, Len(wire.frame)) = wire.resp.payload

\* C27, witness: a frame was encoded whose payload length does not fit one
\* byte.
LongResponseEncoded ==
    /\ wire.op = "to_bytes"
    /\ Len(wire.resp.payload) > 255
    /\ wire.resp.code = GENERAL_ERROR

\* C28: the header handle_request reads is the 23 bytes client_id (16),
\* version (1), code (2), payload_size (4) of the frame, and it decodes
\* the fields the client encoded, integers big-endian.
RequestHeaderLayout ==
    wire.op = "unpack"
    => /\ Len(wire.data) = 23
       /\ wire.got = wire.sent

\* C32: a SEND_PUBLIC_KEY that is served for the id of a clients row leaves
\* that row with a last_seen later than the one it had.
KeyExchangeAdvancesLastSeen ==
    [][\A s \in Sessions :
          (sess[s].pc = "recv" /\ sess'[s].pc = "pk_send")
          => \A c \in clients, d \in clients' :
                (c.id = sess'[s].cid /\ d.id = c.id)
                => d.last_seen > c.last_seen]_vars

\* C34: a files row that is verified stays verified through every step: a
\* SEND_FILE of the same file name, CRC_INCORRECT_RESEND, CRC_INCORRECT_DONE
\* and a key exchange leave the pair with its one row, verified.
VerifiedStays ==
    [][\A f \in files :
          f.verified
          => /\ FileRows(files', f.id, f.file_name) # {}
             /\ \A g \in FileRows(files', f.id, f.file_name) : g.verified]_vars

\* C34, witness: a file that is verified was sent again, and the add_file of
\* the second SEND_FILE is done.
VerifiedFileSentAgain ==
    \E s \in Sessions :
        /\ sess[s].pc = "file_crc"
        /\ \E f \in FileRows(files, sess[s].cid, sess[s].fname) : f.verified

\* C35: no step changes the blob stored at the path of a files row that is
\* verified: what is stored behind the row is what was stored when its
\* owner confirmed it.
VerifiedContentStays ==
    [][\A f \in files :
          (f.verified /\ blobs[f.path_name] # NoBlob)
          => blobs'[f.path_name] = blobs[f.path_name]]_vars

\* C36: the step that ends a SEND_PUBLIC_KEY without sending
\* RECEIVED_PUBLIC_KEY_SEND_AES leaves the public key and the AES key of
\* every clients row as they were.
FailedKeyExchangeKeepsKeys ==
    [][(/\ ev'.s \in Sessions
        /\ ev'.code = SEND_PUBLIC_KEY
        /\ ev'.resp.code # RECEIVED_PUBLIC_KEY_SEND_AES)
          => \A c \in clients :
                \E d \in clients' :
                    /\ d.id = c.id
                    /\ d.public_key = c.public_key
                    /\ d.aes_key = c.aes_key]_vars

\* C37: every row of the files table has a path_name at which a blob is
\* stored, also after a SEND_FILE whose write_value failed.
FileRowsHaveBlob ==
    \A f \in files : blobs[f.path_name] # NoBlob

\* C38: when a connection has just been sent RECEIVED_PUBLIC_KEY_SEND_AES
\* for the id of a client, a SEND_PUBLIC_KEY with that id that another
\* connection sends next leaves the row of the client as it was.
OtherConnectionKeepsKeys ==
    [][\A s \in Sessions :
          (/\ ev.s \in Sessions \ {s}
           /\ ev.resp.code = RECEIVED_PUBLIC_KEY_SEND_AES
           /\ sess[s].pc = "recv"
           /\ \/ sess'[s].pc = "pk_send" /\ sess'[s].cid = ev.cid
              \/ /\ ev'.s = s
                 /\ ev'.code = SEND_PUBLIC_KEY
                 /\ ev'.cid = ev.cid)
          => \A c \in clients : c.id = ev.cid => c \in clients']_vars

\* C39: a request that is answered with REGISTRATION_FAILED,
\* RECONNECT_REJECTED or GENERAL_ERROR is served in one step, from its frame
\* to its response, and the step leaves the clients table, the files table
\* and every blob as they were.
RejectionChangesNothing ==
    [][(/\ ev'.s \in Sessions
        /\ ev'.resp.code \in
             {REGISTRATION_FAILED, RECONNECT_REJECTED, GENERAL_ERROR})
          => (/\ sess[ev'.s].pc = "recv"
              /\ clients' = clients
              /\ files' = files
              /\ blobs' = blobs)]_vars

\* C39, witness: GENERAL_ERROR was sent to a client that has a file staged,
\* with its blob stored.
GeneralErrorOverStagedFile ==
    /\ ev.resp.code = GENERAL_ERROR
    /\ \E f \in files :
         f.id = ev.cid /\ ~f.verified /\ blobs[f.path_name] # NoBlob

\* C40: a thread whose request loop ends, on the peer closing, on a reset
\* or on an exception of a handler, closes its socket in that step; a
\* socket is closed by the step that ends the loop of its thread and by no
\* other, and a thread that closed its socket takes no step after: it
\* reads nothing, sends nothing and closes nothing again.
SocketClosedOnce ==
    [][\A s \in Sessions :
          /\ (ev'.s = s /\ ev'.err # NoErr)
             => (sess[s].pc # "closed" /\ sess'[s].pc = "closed")
          /\ (sess[s].pc # "closed" /\ sess'[s].pc = "closed")
             => (ev'.s = s /\ ev'.err # NoErr /\ ev'.resp = NoResponse)
          /\ sess[s].pc = "closed"
             => (sess'[s] = sess[s] /\ ev'.s # s)]_vars

\* C40, witness: both connections are closed, the second on a reset after
\* the first was closed over a request it could not serve.
BothSocketsClosed ==
    /\ \A s \in Sessions : sess[s].pc = "closed"
    /\ ev.err = "ConnectionResetError"
    /\ now > 0

\* C33: handle_request consumes the bytes of one frame, header and
\* payload_size payload bytes, whatever part of them has arrived when it
\* calls recv, and raises nothing on the way: the next header read starts
\* at the first byte of the next frame.
FrameBoundaryKept ==
    stream.op = "read"
    => /\ stream.err = NoErr
       /\ stream.pos = Len(stream.frame)

\* C31: cache_tables_data returns a list for every table: the rows of a
\* table the file held, no rows for a table it did not hold, which is in
\* the file from then on, and no rows for any table when the file could not
\* be read; and initialize_server raises nothing, whatever the file is.
StartupSurvivesStore ==
    /\ boot.pc \in {"returned", "listening"}
       => /\ boot.results.keys = Tables
          /\ \A tb \in Tables :
               boot.results.rows[tb] =
                  IF boot.caught THEN {} ELSE boot.found.rows[tb]
          /\ ~boot.caught => boot.store.has = Tables
    /\ boot.entry = "initialize_server" => boot.pc # "raised"

====
